---------------------------- MODULE Spec2Model ----------------------------
(***************************************************************************)
(* A model of src/index.ts: one TCP listener that serves plain HTTP, the   *)
(* WebSocket handshake and frames, and a Server-Sent-Events broadcast on   *)
(* the same sockets.                                                       *)
(*                                                                         *)
(* Buffers are sequences of bytes (0..255) and JavaScript strings are      *)
(* sequences of code points, so that Buffer.toString, Buffer.from and the  *)
(* string operations the handlers use (includes, split, startsWith) are    *)
(* computed and not assumed.  Every handler is one action: JavaScript runs *)
(* each callback to completion on a single thread.                         *)
(***************************************************************************)
EXTENDS Integers, Sequences, FiniteSets, TLC

(***************************************************************************)
(* Bounds of the model.                                                    *)
(***************************************************************************)
\* Number of sockets the listener accepts in one behaviour.
NumConns == 2
\* Date.now() takes the values 0..MaxTime (epoch milliseconds).
MaxTime == 1

Conns == 1..NumConns
Times == 0..MaxTime

(***************************************************************************)
(* Text: string literals of the source as sequences of code points.        *)
(***************************************************************************)
\* The printable ASCII characters, code points 32..126, in order (a tab stands
\* at the place of the backquote, which no literal of the source uses).
Ascii == " !\"#$%&'()*+,-./0123456789:;<=>?@ABCDEFGHIJKLMNOPQRSTUVWXYZ[\\]^_\tabcdefghijklmnopqrstuvwxyz{|}~"

\* The code point of a one-character string.
Ord(ch) ==
  IF ch = "\r" THEN 13
  ELSE IF ch = "\n" THEN 10
  ELSE 31 + (CHOOSE i \in 1..Len(Ascii) : SubSeq(Ascii, i, i) = ch)

\* A string literal of the source as the sequence of its code points.
Str(s) == [i \in 1..Len(s) |-> Ord(SubSeq(s, i, i))]

\* U+FFFD, which the UTF-8 decoder puts in place of a malformed byte.
Replacement == <<65533>>

\* The code points one byte position of a buffer decodes to: an ASCII byte is
\* itself, a lead byte 0xC2..0xDF with its continuation byte is one code
\* point, the continuation byte of such a pair is nothing, and any other
\* byte of 0x80..0xDF and 0xF5..0xFF is U+FFFD.  (Lead bytes 0xE0..0xF4 do
\* not occur in the inputs.)
DecodeAt(bytes, i) ==
  LET b == bytes[i]
      cont(j) == /\ j > 1 /\ bytes[j - 1] >= 194 /\ bytes[j - 1] <= 223
                 /\ bytes[j] >= 128 /\ bytes[j] <= 191
  IN  IF b < 128 THEN <<b>>
      ELSE IF cont(i) THEN <<>>
      ELSE IF i < Len(bytes) /\ cont(i + 1) THEN <<(b - 192) * 64 + (bytes[i + 1] - 128)>>
      ELSE Replacement

RECURSIVE DecodeRange(_, _, _)
DecodeRange(bytes, lo, hi) ==
  IF lo > hi THEN <<>>
  ELSE IF lo = hi THEN DecodeAt(bytes, lo)
  ELSE LET mid == (lo + hi) \div 2
       IN  DecodeRange(bytes, lo, mid) \o DecodeRange(bytes, mid + 1, hi)

\* Buffer.toString('utf-8')
Utf8Decode(bytes) == DecodeRange(bytes, 1, Len(bytes))

\* The UTF-8 bytes of one code point of the basic plane.
EncodeOne(cp) ==
  IF cp < 128 THEN <<cp>>
  ELSE IF cp < 2048 THEN <<192 + (cp \div 64), 128 + (cp % 64)>>
  ELSE <<224 + (cp \div 4096), 128 + ((cp \div 64) % 64), 128 + (cp % 64)>>

RECURSIVE EncodeRange(_, _, _)
EncodeRange(text, lo, hi) ==
  IF lo > hi THEN <<>>
  ELSE IF lo = hi THEN EncodeOne(text[lo])
  ELSE LET mid == (lo + hi) \div 2
       IN  EncodeRange(text, lo, mid) \o EncodeRange(text, mid + 1, hi)

\* Buffer.from(text, 'utf-8'), and what socket.write(text) puts on the wire.
Utf8Encode(text) == EncodeRange(text, 1, Len(text))

\* String.prototype.startsWith
startsWith(s, prefix) ==
  /\ Len(s) >= Len(prefix)
  /\ SubSeq(s, 1, Len(prefix)) = prefix

\* The first index at which sep occurs in s, or 0 (String.prototype.indexOf + 1).
indexOf(s, sep) ==
  LET hits == {i \in 1..(Len(s) - Len(sep) + 1) : SubSeq(s, i, i + Len(sep) - 1) = sep}
  IN  IF hits = {} THEN 0 ELSE CHOOSE i \in hits : \A j \in hits : i <= j

\* String.prototype.includes
includes(s, needle) == indexOf(s, needle) # 0

RECURSIVE split(_, _)
\* String.prototype.split with a non-empty separator: at least one piece.
split(s, sep) ==
  LET i == indexOf(s, sep) IN
  IF i = 0 THEN <<s>>
  ELSE <<SubSeq(s, 1, i - 1)>> \o split(SubSeq(s, i + Len(sep), Len(s)), sep)

\* An array element that may be undefined (index past the end).
At(arr, i) ==
  IF i <= Len(arr) THEN [def |-> TRUE, val |-> arr[i]]
  ELSE [def |-> FALSE, val |-> <<>>]

\* x === 'literal' for a possibly undefined x.
Is(x, text) == x.def /\ x.val = text

\* JavaScript truthiness of a possibly undefined string.
Truthy(x) == x.def /\ x.val # <<>>

RECURSIVE Dec(_)
\* `${n}` for a non-negative integer.
Dec(n) == IF n < 10 THEN <<48 + n>> ELSE Dec(n \div 10) \o <<48 + (n % 10)>>

\* Date.prototype.toISOString for an epoch-millisecond value below one minute.
toISOString(t) ==
  LET s == t \div 1000
      ms == t % 1000
  IN  Str("1970-01-01T00:00:") \o <<48 + (s \div 10), 48 + (s % 10)>> \o Str(".")
        \o <<48 + (ms \div 100), 48 + ((ms \div 10) % 10), 48 + (ms % 10)>> \o Str("Z")

CRLF == Str("\r\n")
LF == Str("\n")

(***************************************************************************)
(* Bytes.                                                                  *)
(***************************************************************************)
\* data[i] inside a bitwise expression: an index past the end reads
\* undefined, which the operators & and ^ take as 0.
ByteAt(data, i) == IF i < Len(data) THEN data[i + 1] ELSE 0

RECURSIVE Xor(_, _)
\* a ^ b on non-negative integers.
Xor(a, b) ==
  IF a = 0 THEN b
  ELSE IF b = 0 THEN a
  ELSE 2 * Xor(a \div 2, b \div 2) + ((a + b) % 2)

\* Buffer.slice(from, to): both ends are clamped to the buffer.
slice(data, from, to) ==
  LET lo == IF from > Len(data) THEN Len(data) ELSE from
      hi == IF to > Len(data) THEN Len(data) ELSE to
  IN  IF hi <= lo THEN <<>> ELSE SubSeq(data, lo + 1, hi)

\* A length no buffer of the model reaches: Buffer.slice clamps every
\* length from here on alike.
LengthCap == 8388608

RECURSIVE BigEndian(_)
\* The unsigned big-endian value of a run of bytes (readUInt16BE,
\* Number(readBigUInt64BE)), exact below LengthCap and LengthCap from there on.
BigEndian(bytes) ==
  IF bytes = <<>> THEN 0
  ELSE LET high == BigEndian(SubSeq(bytes, 1, Len(bytes) - 1))
       IN  IF high >= LengthCap \div 256 THEN LengthCap
           ELSE 256 * high + bytes[Len(bytes)]

(***************************************************************************)
(* What a handler does to sockets and to the registry, in program order.   *)
(***************************************************************************)
\* socket.write(data), issued by the statement named site.
Write(site, data) == [call |-> "write", site |-> site, data |-> data]
\* socket.end()
End(site) == [call |-> "end", site |-> site, data |-> <<>>]
\* sseClients.add(socket)
Add(site) == [call |-> "add", site |-> site, data |-> <<>>]

\* A handler that returned after making these calls.
Returned(calls) == [calls |-> calls, threw |-> FALSE]
\* A handler that threw after making these calls.
Threw(calls) == [calls |-> calls, threw |-> TRUE]

(***************************************************************************)
(* HTTP responder.                                                         *)
(***************************************************************************)
httpStatusMessages ==
  (200 :> Str("OK")) @@ (201 :> Str("Created")) @@ (202 :> Str("Accepted"))
  @@ (204 :> Str("No Content")) @@ (301 :> Str("Moved Permanently"))
  @@ (302 :> Str("Found")) @@ (304 :> Str("Not Modified"))
  @@ (400 :> Str("Bad Request")) @@ (401 :> Str("Unauthorized"))
  @@ (403 :> Str("Forbidden")) @@ (404 :> Str("Not Found"))
  @@ (405 :> Str("Method Not Allowed")) @@ (500 :> Str("Internal Server Error"))
  @@ (501 :> Str("Not Implemented")) @@ (502 :> Str("Bad Gateway"))
  @@ (503 :> Str("Service Unavailable"))

buildStatusLine(status) ==
  LET message == IF status \in DOMAIN httpStatusMessages
                 THEN httpStatusMessages[status]
                 ELSE Str("Unknown Status")
  IN  Str("HTTP/1.1 ") \o Dec(status) \o Str(" ") \o message \o CRLF

RECURSIVE JoinHeaders(_)
\* Object.entries(headers).map(([key, value]) => `${key}: ${value}`).join('\r\n')
JoinHeaders(headers) ==
  IF headers = <<>> THEN <<>>
  ELSE Head(headers)[1] \o Str(": ") \o Head(headers)[2]
         \o (IF Len(headers) > 1 THEN CRLF ELSE <<>>) \o JoinHeaders(Tail(headers))

\* headers is the object's entries, in insertion order.
buildHeaders(headers) == JoinHeaders(headers) \o CRLF

buildResponse(status, headers, body) ==
  buildStatusLine(status) \o buildHeaders(headers) \o CRLF \o body

\* The header block handleSseRequest writes.
SseHeaders ==
  Str("HTTP/1.1 200 OK\r\n") \o Str("Content-Type: text/event-stream\r\n")
    \o Str("Cache-Control: no-cache\r\n") \o Str("Connection: keep-alive\r\n")
    \o Str("Access-Control-Allow-Origin: *\r\n\r\n")

handleSseRequest == <<Write("sse-headers", Utf8Encode(SseHeaders)), Add("sse-add")>>

\* The two headers every handleHttpRequest response starts from.
BaseHeaders ==
  << <<Str("Content-Type"), Str("text/plain")>>,
     <<Str("Access-Control-Allow-Origin"), Str("*")>> >>

\* Route that compares the path by prefix instead of by equality.
RoutePrefix(data) ==
  LET request == Utf8Decode(data)
      requestLine == split(request, CRLF)[1]
      parts == split(requestLine, Str(" "))
      method == At(parts, 1)
      path == At(parts, 2)
  IN  IF Is(method, Str("GET")) /\ Is(path, Str("/"))
      THEN [sse |-> FALSE, status |-> 200, headers |-> BaseHeaders,
            body |-> Str("Hello, world!")]
      ELSE IF Is(method, Str("GET")) /\ path.def /\ startsWith(path.val, Str("/websocket"))
      THEN [sse |-> FALSE, status |-> 426,
            headers |-> BaseHeaders \o << <<Str("Upgrade"), Str("websocket")>>,
                                          <<Str("Connection"), Str("Upgrade")>> >>,
            body |-> Str("Upgrade Required")]
      ELSE IF Is(method, Str("GET")) /\ Is(path, Str("/serverside-events"))
      THEN [sse |-> TRUE, status |-> 0, headers |-> <<>>, body |-> <<>>]
      ELSE [sse |-> FALSE, status |-> 404, headers |-> BaseHeaders,
            body |-> Str("Not Found")]

\* The status, headers and body handleHttpRequest chooses, or sse for the
\* route it hands to handleSseRequest.
Route(data) ==
  LET request == Utf8Decode(data)
      requestLine == split(request, CRLF)[1]
      parts == split(requestLine, Str(" "))
      method == At(parts, 1)
      path == At(parts, 2)
  IN  IF Is(method, Str("GET")) /\ Is(path, Str("/"))
      THEN [sse |-> FALSE, status |-> 200, headers |-> BaseHeaders,
            body |-> Str("Hello, world!")]
      ELSE IF Is(method, Str("GET")) /\ Is(path, Str("/websocket"))
      THEN [sse |-> FALSE, status |-> 426,
            headers |-> BaseHeaders \o << <<Str("Upgrade"), Str("websocket")>>,
                                          <<Str("Connection"), Str("Upgrade")>> >>,
            body |-> Str("Upgrade Required")]
      ELSE IF Is(method, Str("GET")) /\ Is(path, Str("/serverside-events"))
      THEN [sse |-> TRUE, status |-> 0, headers |-> <<>>, body |-> <<>>]
      ELSE [sse |-> FALSE, status |-> 404, headers |-> BaseHeaders,
            body |-> Str("Not Found")]

\* handleHttpRequest that ends the socket after every response, 426 included.
handleHttpRequestAlwaysEnds(data) ==
  LET r == Route(data)
      response == buildResponse(r.status, r.headers, r.body)
  IN  IF r.sse THEN Returned(handleSseRequest)
      ELSE Returned(<<Write("http", Utf8Encode(response)), End("http-end")>>)

handleHttpRequest(data) ==
  LET r == Route(data)
      response == buildResponse(r.status, r.headers, r.body)
  IN  IF r.sse THEN Returned(handleSseRequest)
      ELSE Returned(<<Write("http", Utf8Encode(response))>>
                      \o (IF r.status # 426 THEN <<End("http-end")>> ELSE <<>>))

(***************************************************************************)
(* WebSocket handshake.                                                    *)
(***************************************************************************)
KeyName == Str("Sec-WebSocket-Key")
Guid == Str("258EAFA5-E914-47DA-95CA-C5AB0DC85B11")

\* crypto.createHash('sha1').update(text, 'binary').digest('base64').  SHA-1
\* is not computed: the digest of the RFC 6455 sample is the known one, and
\* any other digest is a term over its input.
Sha1Base64(text) ==
  IF text = Str("dGhlIHNhbXBsZSBub25jZQ==") \o Guid
  THEN Str("s3pPLMBiTxaQ9kYGzzhZRbK+xOo=")
  ELSE Str("sha1(") \o text \o Str(")")

generateAcceptValue(key) == Sha1Base64(key \o Guid)

\* headers.find((header) => header.startsWith('Sec-WebSocket-Key'))?.split(': ')[1]
HandshakeKey(data) ==
  LET headers == split(Utf8Decode(data), CRLF)
      found == {i \in 1..Len(headers) : startsWith(headers[i], KeyName)}
  IN  IF found = {} THEN [def |-> FALSE, val |-> <<>>]
      ELSE LET first == CHOOSE i \in found : \A j \in found : i <= j
           IN  At(split(headers[first], Str(": ")), 2)

SwitchingProtocols(acceptKey) ==
  Str("HTTP/1.1 101 Switching Protocols\r\n") \o Str("Upgrade: websocket\r\n")
    \o Str("Connection: Upgrade\r\n")
    \o Str("Sec-WebSocket-Accept: ") \o acceptKey \o CRLF
    \o Str("Access-Control-Allow-Origin: *\r\n\r\n")

\* handleWebSocketHandshake that answers without looking for a key value.
handleWebSocketHandshakeAnyKey(data) ==
  LET key == HandshakeKey(data) IN
  Returned(<<Write("handshake",
                   Utf8Encode(SwitchingProtocols(generateAcceptValue(key.val))))>>)

handleWebSocketHandshake(data) ==
  LET key == HandshakeKey(data) IN
  IF Truthy(key)
  THEN Returned(<<Write("handshake",
                        Utf8Encode(SwitchingProtocols(generateAcceptValue(key.val))))>>)
  ELSE Returned(<<>>)

(***************************************************************************)
(* WebSocket frames.                                                       *)
(***************************************************************************)
\* sendWebSocketFrame that stores message.length, the number of characters,
\* where the code stores payload.length, the number of bytes.
EncodeFrameCharCount(message) ==
  LET payload == Utf8Encode(message)
  IN  <<129, Len(message) % 256>> \o payload

\* The frame sendWebSocketFrame writes: frame[1] is a byte, so the length is
\* stored modulo 256.
EncodeFrame(message) ==
  LET payload == Utf8Encode(message)
  IN  <<129, Len(payload) % 256>> \o payload

sendWebSocketFrame(message) == <<Write("echo", EncodeFrame(message))>>

\* Lines 150-173 with maskingKey[idx] in place of maskingKey[idx % 4]: past
\* the fourth byte the key reads undefined and the byte stays as it is.
DecodeFrameNoWrap(data) ==
  LET fin == (ByteAt(data, 0) \div 128) % 2
      opcode == ByteAt(data, 0) % 16
      mask == (ByteAt(data, 1) \div 128) % 2
      code == ByteAt(data, 1) % 128
      ext == IF code = 126 THEN 2 ELSE IF code = 127 THEN 8 ELSE 0
      threw == 2 + ext > Len(data) /\ ext > 0
      payloadLength == IF ext = 0 THEN code ELSE BigEndian(slice(data, 2, 2 + ext))
      offset == 2 + ext
      maskingKey == IF mask = 1 THEN slice(data, offset, offset + 4) ELSE <<>>
      start == offset + (IF mask = 1 THEN 4 ELSE 0)
      raw == slice(data, start, start + payloadLength)
      payloadData == IF mask = 1
                     THEN [i \in 1..Len(raw) |-> Xor(raw[i], ByteAt(maskingKey, i - 1))]
                     ELSE raw
  IN  [threw |-> threw, fin |-> fin, opcode |-> opcode, mask |-> mask,
       payloadLength |-> payloadLength, payloadData |-> payloadData]

\* Lines 150-173: the header fields and the unmasked payload, or threw when
\* readUInt16BE / readBigUInt64BE reads past the end of the buffer.
DecodeFrame(data) ==
  LET fin == (ByteAt(data, 0) \div 128) % 2
      opcode == ByteAt(data, 0) % 16
      mask == (ByteAt(data, 1) \div 128) % 2
      code == ByteAt(data, 1) % 128
      ext == IF code = 126 THEN 2 ELSE IF code = 127 THEN 8 ELSE 0
      threw == 2 + ext > Len(data) /\ ext > 0
      payloadLength == IF ext = 0 THEN code ELSE BigEndian(slice(data, 2, 2 + ext))
      offset == 2 + ext
      maskingKey == IF mask = 1 THEN slice(data, offset, offset + 4) ELSE <<>>
      start == offset + (IF mask = 1 THEN 4 ELSE 0)
      raw == slice(data, start, start + payloadLength)
      payloadData == IF mask = 1
                     THEN [i \in 1..Len(raw) |-> Xor(raw[i], ByteAt(maskingKey, (i - 1) % 4))]
                     ELSE raw
  IN  [threw |-> threw, fin |-> fin, opcode |-> opcode, mask |-> mask,
       payloadLength |-> payloadLength, payloadData |-> payloadData]

\* handleWebSocketFrames whose case 0x8 does not call socket.end().
handleWebSocketFramesNoEnd(data) ==
  LET f == DecodeFrame(data) IN
  IF f.threw THEN Threw(<<>>)
  ELSE IF f.opcode = 1 THEN Returned(sendWebSocketFrame(Utf8Decode(f.payloadData)))
  ELSE Returned(<<>>)

handleWebSocketFrames(data) ==
  LET f == DecodeFrame(data) IN
  IF f.threw THEN Threw(<<>>)
  ELSE IF f.opcode = 1 THEN Returned(sendWebSocketFrame(Utf8Decode(f.payloadData)))
  ELSE IF f.opcode = 8 THEN Returned(<<End("close-frame")>>)
  ELSE Returned(<<>>)

(***************************************************************************)
(* Classifier.                                                             *)
(***************************************************************************)
isWebSocketHandshake(data) == includes(Utf8Decode(data), KeyName)

isWebSocketFrame(data) ==
  /\ (ByteAt(data, 0) \div 128) % 2 = 1
  /\ ByteAt(data, 0) % 16 # 0

\* The 'data' callback with its first two tests exchanged.
ClassifyFrameFirst(data) ==
  IF isWebSocketFrame(data) THEN "frame"
  ELSE IF isWebSocketHandshake(data) THEN "handshake"
  ELSE "http"

\* The handler the 'data' callback passes the buffer to.
Classify(data) ==
  IF isWebSocketHandshake(data) THEN "handshake"
  ELSE IF isWebSocketFrame(data) THEN "frame"
  ELSE "http"

\* The 'data' callback: the handler it chooses and what that handler does.
onData(data) ==
  LET h == Classify(data)
      r == IF h = "handshake" THEN handleWebSocketHandshake(data)
           ELSE IF h = "frame" THEN handleWebSocketFrames(data)
           ELSE handleHttpRequest(data)
  IN  [handler |-> h, calls |-> r.calls, threw |-> r.threw]

(***************************************************************************)
(* Server-Sent Events.                                                     *)
(***************************************************************************)
\* An SseMessage field that is not set.
Absent == [def |-> FALSE, val |-> <<>>]
\* An SseMessage field set to a string.
Field(text) == [def |-> TRUE, val |-> text]

formatSseMessage(message) ==
  (IF Truthy(message.event) THEN Str("event: ") \o message.event.val \o LF ELSE <<>>)
    \o (IF Truthy(message.data) THEN Str("data: ") \o message.data.val \o LF ELSE <<>>)
    \o (IF Truthy(message.id) THEN Str("id: ") \o message.id.val \o LF ELSE <<>>)
    \o (IF Truthy(message.retry) THEN Str("retry: ") \o message.retry.val \o LF ELSE <<>>)
    \o LF

\* Set.prototype.add as an array push would do it: no membership test.
setAddPush(clients, c) == Append(clients, c)

\* Set.prototype.add on a set kept in insertion order.
setAdd(clients, c) ==
  IF \E i \in 1..Len(clients) : clients[i] = c THEN clients ELSE Append(clients, c)

\* Set.prototype.delete that removes nothing.
setDeleteNothing(clients, c) == clients

\* Set.prototype.delete
setDelete(clients, c) == SelectSeq(clients, LAMBDA x : x # c)

\* The members of the registry.
Members(clients) == {clients[i] : i \in 1..Len(clients)}

\* The four messages of one timer tick at time t (lines 45-48).
TickMessages(t) ==
  << [event |-> Field(Str("ping")),
      data |-> Field(Str("Ping event at ") \o toISOString(t)),
      id |-> Absent, retry |-> Absent],
     [event |-> Absent, data |-> Field(Str("Server time: ") \o toISOString(t)),
      id |-> Absent, retry |-> Absent],
     [event |-> Absent, data |-> Absent, id |-> Field(Dec(t)), retry |-> Absent],
     [event |-> Absent, data |-> Absent, id |-> Absent, retry |-> Field(Str("3000"))] >>

\* The text each of the four sendSseMessage calls of a tick at time t writes.
TickTexts(t) ==
  << Utf8Encode(formatSseMessage(TickMessages(t)[1])),
     Utf8Encode(formatSseMessage(TickMessages(t)[2])),
     Utf8Encode(formatSseMessage(TickMessages(t)[3])),
     Utf8Encode(formatSseMessage(TickMessages(t)[4])) >>

RECURSIVE TickTextsFrom(_, _)
TickTextsFrom(lo, hi) ==
  IF lo > hi THEN <<>>
  ELSE IF lo = hi THEN <<TickTexts(lo)>>
  ELSE LET mid == (lo + hi) \div 2
       IN  TickTextsFrom(lo, mid) \o TickTextsFrom(mid + 1, hi)

\* TickTexts(t) for every t of Times, computed once: TickTable[t + 1].
TickTable == TickTextsFrom(0, MaxTime)

\* sendSseMessage, given the formatted message: one write per member of the
\* registry, in iteration order.
sendSseMessage(formattedMessage, clients) ==
  [i \in 1..Len(clients) |->
     [sock |-> clients[i], call |-> "write", site |-> "broadcast",
      data |-> formattedMessage]]

\* The setInterval callback with its first two sendSseMessage calls exchanged.
onTickSwapped(t, clients) ==
  sendSseMessage(TickTable[t + 1][2], clients) \o sendSseMessage(TickTable[t + 1][1], clients)
    \o sendSseMessage(TickTable[t + 1][3], clients)
    \o sendSseMessage(TickTable[t + 1][4], clients)

\* The setInterval callback at time t.
onTick(t, clients) ==
  sendSseMessage(TickTable[t + 1][1], clients) \o sendSseMessage(TickTable[t + 1][2], clients)
    \o sendSseMessage(TickTable[t + 1][3], clients)
    \o sendSseMessage(TickTable[t + 1][4], clients)

(***************************************************************************)
(* The buffers a client sends in the behaviours of Spec.                   *)
(***************************************************************************)
ReqRoot == Utf8Encode(Str("GET / HTTP/1.1\r\nHost: localhost\r\n\r\n"))
ReqWebsocket == Utf8Encode(Str("GET /websocket HTTP/1.1\r\n\r\n"))
ReqSse == Utf8Encode(Str("GET /serverside-events HTTP/1.1\r\nAccept: text/event-stream\r\n\r\n"))
ReqUpgrade ==
  Utf8Encode(Str("GET /websocket HTTP/1.1\r\nUpgrade: websocket\r\nSec-WebSocket-Key: dGhlIHNhbXBsZSBub25jZQ==\r\n\r\n"))
ReqUpgradeNoKey ==
  Utf8Encode(Str("GET /websocket HTTP/1.1\r\nX-Sec-WebSocket-Key: abc\r\n\r\n"))
\* FIN, text, unmasked, "hi"
FrameText == <<129, 2>> \o Utf8Encode(Str("hi"))
\* FIN, close, no payload
FrameClose == <<136, 0>>
\* FIN, ping, no payload
FramePing == <<137, 0>>
\* FIN, continuation (opcode 0), no payload
FrameContinuation == <<128, 0>>
\* FIN, text, length code 126 with no length bytes behind it
FrameTruncated == <<129, 126>>

\* The buffers of Spec, in a fixed order.
Inputs == <<ReqRoot, ReqSse, ReqUpgrade, FrameText, FrameClose>>

\* Further buffers, which SpecOne sends as well.
EdgeInputs == <<ReqWebsocket, ReqUpgradeNoKey, FramePing, FrameContinuation, FrameTruncated>>

\* Request lines <method> SP <path> <tail>, one for every combination.
ProbeMethods == <<Str("GET"), Str("POST"), Str("get"), Str("")>>
ProbePaths ==
  <<Str("/"), Str("/websocket"), Str("/serverside-events"), Str("/nope"),
    Str("/websocket/"), Str("/Serverside-events"), Str("//"), Str("")>>
ProbeTails == <<Str(" HTTP/1.1\r\nHost: localhost\r\n\r\n"), Str("\r\n\r\n"), Str("")>>
NumHttpProbes == Len(ProbeMethods) * Len(ProbePaths) * Len(ProbeTails)

\* The method, path and tail of the k-th request line.
HttpProbeParts(k) ==
  [method |-> ProbeMethods[((k - 1) % Len(ProbeMethods)) + 1],
   path |-> ProbePaths[(((k - 1) \div Len(ProbeMethods)) % Len(ProbePaths)) + 1],
   tail |-> ProbeTails[((k - 1) \div (Len(ProbeMethods) * Len(ProbePaths))) + 1]]

HttpProbe(k) ==
  LET q == HttpProbeParts(k)
  IN  Utf8Encode(q.method \o Str(" ") \o q.path \o q.tail)

\* Buffers <first byte> <rest>, one for every combination.  sig: the top bit
\* of the byte is set and its low four bits are not all zero.
ProbeFirstBytes ==
  << [byte |-> 0, sig |-> FALSE], [byte |-> 1, sig |-> FALSE],
     [byte |-> 15, sig |-> FALSE], [byte |-> 71, sig |-> FALSE],
     [byte |-> 127, sig |-> FALSE], [byte |-> 128, sig |-> FALSE],
     [byte |-> 129, sig |-> TRUE], [byte |-> 136, sig |-> TRUE],
     [byte |-> 143, sig |-> TRUE], [byte |-> 144, sig |-> FALSE],
     [byte |-> 192, sig |-> FALSE], [byte |-> 255, sig |-> TRUE] >>

\* named: the text holds Sec-WebSocket-Key.  keyed: the first line of the
\* buffer that begins with Sec-WebSocket-Key has a value after ": ".
ProbeRests ==
  << [text |-> Str(""), named |-> FALSE, keyed |-> FALSE],
     [text |-> Str("x"), named |-> FALSE, keyed |-> FALSE],
     [text |-> Str("Sec-WebSocket-Key"), named |-> TRUE, keyed |-> FALSE],
     [text |-> Str("Sec-WebSocket-Key: abc\r\n"), named |-> TRUE, keyed |-> FALSE],
     [text |-> Str("\r\nSec-WebSocket-Key: abc\r\n\r\n"), named |-> TRUE, keyed |-> TRUE],
     [text |-> Str("\r\nsec-websocket-key: abc\r\n\r\n"), named |-> FALSE, keyed |-> FALSE],
     [text |-> Str("\r\nSec-WebSocket-Ke: abc\r\n\r\n"), named |-> FALSE, keyed |-> FALSE],
     [text |-> Str("\r\nSec-WebSocket-Key:abc\r\n\r\n"), named |-> TRUE, keyed |-> FALSE],
     [text |-> Str("\r\nSec-WebSocket-Key: \r\n\r\n"), named |-> TRUE, keyed |-> FALSE],
     [text |-> Str("\r\nSec-WebSocket-Key:\r\nSec-WebSocket-Key: abc\r\n\r\n"),
      named |-> TRUE, keyed |-> FALSE],
     [text |-> Str("\r\nX: Sec-WebSocket-Key\r\n\r\n"), named |-> TRUE, keyed |-> FALSE] >>
NumByteProbes == Len(ProbeFirstBytes) * Len(ProbeRests)

\* The first byte and the rest of the k-th such buffer.
ByteProbeParts(k) ==
  [first |-> ProbeFirstBytes[((k - 1) % Len(ProbeFirstBytes)) + 1],
   rest |-> ProbeRests[((k - 1) \div Len(ProbeFirstBytes)) + 1]]

ByteProbe(k) ==
  LET q == ByteProbeParts(k)
  IN  <<q.first.byte>> \o Utf8Encode(q.rest.text)

RECURSIVE HttpProbesFrom(_, _)
HttpProbesFrom(lo, hi) ==
  IF lo > hi THEN <<>>
  ELSE IF lo = hi THEN <<HttpProbe(lo)>>
  ELSE LET mid == (lo + hi) \div 2
       IN  HttpProbesFrom(lo, mid) \o HttpProbesFrom(mid + 1, hi)

RECURSIVE ByteProbesFrom(_, _)
ByteProbesFrom(lo, hi) ==
  IF lo > hi THEN <<>>
  ELSE IF lo = hi THEN <<ByteProbe(lo)>>
  ELSE LET mid == (lo + hi) \div 2
       IN  ByteProbesFrom(lo, mid) \o ByteProbesFrom(mid + 1, hi)

HttpProbes == HttpProbesFrom(1, NumHttpProbes)
ByteProbes == ByteProbesFrom(1, NumByteProbes)

\* Every buffer some specification of this module sends: AllInputs[i].
AllInputs == Inputs \o EdgeInputs \o HttpProbes \o ByteProbes

\* Where the request lines and the first-byte buffers start in AllInputs.
HttpBase == Len(Inputs) + Len(EdgeInputs)
ByteBase == HttpBase + NumHttpProbes

RECURSIVE onDataFrom(_, _)
onDataFrom(lo, hi) ==
  IF lo > hi THEN <<>>
  ELSE IF lo = hi THEN <<onData(AllInputs[lo])>>
  ELSE LET mid == (lo + hi) \div 2
       IN  onDataFrom(lo, mid) \o onDataFrom(mid + 1, hi)

\* onData(AllInputs[i]) for every i, computed once.
onDataTable == onDataFrom(1, Len(AllInputs))

(***************************************************************************)
(* State.                                                                  *)
(***************************************************************************)
VARIABLES
  running,        \* the process is alive (no uncaught exception yet)
  phase,          \* per socket: "idle" (not accepted yet), "open", "ended"
                  \* ('end' emitted), "errored" ('error' emitted), "closed"
  writableEnded,  \* per socket: socket.end() has been called
  sseClients,     \* the registry, a Set<Socket> in insertion order
  upgraded,       \* per socket: a 101 response has been written to it
  last            \* the callback that ran last and the calls it made

vars == <<running, phase, writableEnded, sseClients, upgraded, last>>

\* A write reaches the peer only on a socket that is open in both directions
\* and whose writable side has not been ended.
Writable(st, we, c) == st[c] = "open" /\ ~we[c]

\* The callback that ran last: the event (op), its socket, the buffer of a
\* 'data' event (input: its index in AllInputs) or the time of a tick, the
\* handler the buffer went to, the calls made in program order, each write
\* with ok (it was made on a writable socket), and whether the callback
\* threw.  member, wasUpgraded: the socket was in the registry, had been
\* written a 101 response, when the callback started.
NoCallback ==
  [op |-> "init", sock |-> 0, member |-> FALSE, wasUpgraded |-> FALSE, input |-> 0,
   data |-> <<>>, handler |-> "", time |-> 0, calls |-> <<>>, threw |-> FALSE]

Callback(op, c) ==
  [NoCallback EXCEPT !.op = op, !.sock = c, !.member = c \in Members(sseClients),
                     !.wasUpgraded = upgraded[c]]

\* The setInterval callback has no socket of its own.
TimerCallback(t) == [NoCallback EXCEPT !.op = "tick", !.time = t]

RECURSIVE Perform(_, _)
\* The state after the calls, made in order: [we, clients, log, up].
Perform(calls, acc) ==
  IF calls = <<>> THEN acc
  ELSE LET x == Head(calls)
           ok == IF x.call = "write" THEN Writable(phase, acc.we, x.sock) ELSE TRUE
           next ==
             [we |-> IF x.call = "end" THEN [acc.we EXCEPT ![x.sock] = TRUE] ELSE acc.we,
              clients |-> IF x.call = "add" THEN setAdd(acc.clients, x.sock)
                          ELSE acc.clients,
              log |-> Append(acc.log, [sock |-> x.sock, call |-> x.call, site |-> x.site,
                                       data |-> x.data, ok |-> ok]),
              up |-> IF x.call = "write" /\ x.site = "handshake"
                     THEN [acc.up EXCEPT ![x.sock] = TRUE]
                     ELSE acc.up]
       IN  Perform(Tail(calls), next)

\* The calls of a handler that was passed socket c.
On(c, calls) ==
  [i \in 1..Len(calls) |->
     [sock |-> c, call |-> calls[i].call, site |-> calls[i].site, data |-> calls[i].data]]

Start == [we |-> writableEnded, clients |-> sseClients, log |-> <<>>, up |-> upgraded]

Init ==
  /\ running = TRUE
  /\ phase = [c \in Conns |-> "idle"]
  /\ writableEnded = [c \in Conns |-> FALSE]
  /\ sseClients = <<>>
  /\ upgraded = [c \in Conns |-> FALSE]
  /\ last = NoCallback

(***************************************************************************)
(* Callbacks.                                                              *)
(***************************************************************************)
\* server.on('connection')
Connection(c) ==
  /\ running /\ phase[c] = "idle"
  /\ phase' = [phase EXCEPT ![c] = "open"]
  /\ last' = Callback("connection", c)
  /\ UNCHANGED <<running, writableEnded, sseClients, upgraded>>

\* socket.on('data') with the buffer AllInputs[i].  An exception the handler
\* throws is caught by nothing: the process exits, and with it every socket
\* and the registry are gone.
Data(c, i) ==
  LET r == onDataTable[i]
      after == Perform(On(c, r.calls), Start)
  IN  /\ running /\ phase[c] = "open"
      /\ last' = [Callback("data", c) EXCEPT !.input = i, !.data = AllInputs[i],
                                             !.handler = r.handler, !.calls = after.log,
                                             !.threw = r.threw]
      /\ IF r.threw
         THEN /\ running' = FALSE
              /\ phase' = [x \in Conns |-> "closed"]
              /\ writableEnded' = [x \in Conns |-> TRUE]
              /\ sseClients' = <<>>
              /\ upgraded' = [x \in Conns |-> FALSE]
         ELSE /\ writableEnded' = after.we
              /\ sseClients' = after.clients
              /\ upgraded' = after.up
              /\ UNCHANGED <<running, phase>>

\* socket.on('end'): the peer has sent FIN.  The listener was created with
\* allowHalfOpen false, so the socket ends its own writable side as well.
SocketEnd(c) ==
  /\ running /\ phase[c] = "open"
  /\ phase' = [phase EXCEPT ![c] = "ended"]
  /\ writableEnded' = [writableEnded EXCEPT ![c] = TRUE]
  /\ sseClients' = setDelete(sseClients, c)
  /\ last' = Callback("end", c)
  /\ UNCHANGED <<running, upgraded>>

\* socket.on('error') that also deletes the socket from the registry.
SocketErrorDeletes(c) ==
  /\ running /\ phase[c] \in {"open", "ended"}
  /\ phase' = [phase EXCEPT ![c] = "errored"]
  /\ writableEnded' = [writableEnded EXCEPT ![c] = TRUE]
  /\ sseClients' = setDelete(sseClients, c)
  /\ last' = Callback("error", c)
  /\ UNCHANGED <<running, upgraded>>

\* socket.on('error'): only logs.  The socket has been destroyed: nothing can
\* be written to it any more.
SocketError(c) ==
  /\ running /\ phase[c] \in {"open", "ended"}
  /\ phase' = [phase EXCEPT ![c] = "errored"]
  /\ writableEnded' = [writableEnded EXCEPT ![c] = TRUE]
  /\ last' = Callback("error", c)
  /\ UNCHANGED <<running, sseClients, upgraded>>

\* socket.on('close'): emitted once, after 'end' or 'error'.  The socket is
\* gone, and what was written to it with it.
SocketClose(c) ==
  /\ running /\ phase[c] \in {"ended", "errored"}
  /\ phase' = [phase EXCEPT ![c] = "closed"]
  /\ sseClients' = setDelete(sseClients, c)
  /\ upgraded' = [upgraded EXCEPT ![c] = FALSE]
  /\ last' = Callback("close", c)
  /\ UNCHANGED <<running, writableEnded>>

\* socket.on('timeout'): only logs.
SocketTimeout(c) ==
  /\ running /\ phase[c] = "open"
  /\ last' = Callback("timeout", c)
  /\ UNCHANGED <<running, phase, writableEnded, sseClients, upgraded>>

\* The setInterval callback if socket.write threw on a socket that cannot be
\* written: the calls stop at the first such write and the process exits.
TickThrowsOnFailure(t) ==
  /\ running
  /\ LET all == Perform(onTick(t, sseClients), Start).log
         bad == {i \in 1..Len(all) : ~all[i].ok}
         stop == IF bad = {} THEN Len(all) ELSE CHOOSE i \in bad : \A j \in bad : i <= j
     IN  /\ last' = [TimerCallback(t) EXCEPT !.calls = SubSeq(all, 1, stop),
                                             !.threw = bad # {}]
         /\ running' = (bad = {})
  /\ UNCHANGED <<phase, writableEnded, sseClients, upgraded>>

\* The setInterval callback at time t.
Tick(t) ==
  /\ running
  /\ LET after == Perform(onTick(t, sseClients), Start)
     IN  /\ writableEnded' = after.we
         /\ sseClients' = after.clients
         /\ upgraded' = after.up
         /\ last' = [TimerCallback(t) EXCEPT !.calls = after.log]
  /\ UNCHANGED <<running, phase>>

Next ==
  \/ \E c \in Conns : Connection(c)
  \/ \E c \in Conns, i \in 1..Len(Inputs) : Data(c, i)
  \/ \E c \in Conns : SocketEnd(c)
  \/ \E c \in Conns : SocketError(c)
  \/ \E c \in Conns : SocketClose(c)
  \/ \E c \in Conns : SocketTimeout(c)
  \/ \E t \in Times : Tick(t)

Spec == Init /\ [][Next]_vars

(***************************************************************************)
(* One connection, every buffer of AllInputs.                              *)
(***************************************************************************)
NextOne ==
  \/ Connection(1)
  \/ \E i \in 1..Len(AllInputs) : Data(1, i)
  \/ SocketEnd(1)
  \/ SocketError(1)
  \/ SocketClose(1)
  \/ SocketTimeout(1)
  \/ \E t \in Times : Tick(t)

SpecOne == Init /\ [][NextOne]_vars

(***************************************************************************)
(* Reading the last callback.                                              *)
(***************************************************************************)
\* The calls the last callback made on socket c.
CallsOn(c) == SelectSeq(last.calls, LAMBDA x : x.sock = c)

\* The buffers the last callback wrote to socket c, in order.
WrittenTo(c) ==
  LET w == SelectSeq(last.calls, LAMBDA x : x.sock = c /\ x.call = "write")
  IN  [i \in 1..Len(w) |-> w[i].data]

\* The last callback was a 'data' event.
DataHandled == last.op = "data"

\* The last callback handled a buffer as a WebSocket frame with opcode 0x8.
CloseFrameHandled ==
  /\ DataHandled /\ last.handler = "frame"
  /\ ByteAt(last.data, 0) % 16 = 8

(***************************************************************************)
(* C1                                                                      *)
(***************************************************************************)
\* C1: the registry holds no socket twice; every broadcast of a tick writes
\* its formatted message exactly once to each socket that is in the registry
\* and never to a socket that is not; and a socket whose 'close' event has
\* fired is in no registry, so no later broadcast writes to it.
C1_FanOutAndCleanup ==
  /\ \A i, j \in 1..Len(sseClients) : sseClients[i] = sseClients[j] => i = j
  /\ \A c \in Conns : phase[c] = "closed" => c \notin Members(sseClients)
  /\ last.op = "tick" =>
       \A c \in Conns, k \in 1..4 :
         Cardinality({i \in 1..Len(last.calls) :
                        /\ last.calls[i].sock = c
                        /\ last.calls[i].call = "write"
                        /\ last.calls[i].data = TickTable[last.time + 1][k]})
           = IF c \in Members(sseClients) THEN 1 ELSE 0
  /\ last.op = "tick" => Len(last.calls) = 4 * Len(sseClients)

\* A tick has written to two subscribed sockets.
C1_Witness ==
  /\ last.op = "tick"
  /\ Len(sseClients) >= 2
  /\ \A c \in Members(sseClients) : Len(WrittenTo(c)) = 4

C3_Original ==
  (DataHandled /\ last.wasUpgraded) =>
    /\ last.handler = "frame"
    /\ \A i \in 1..Len(last.calls) :
         last.calls[i].site \notin {"http", "http-end", "sse-headers", "sse-add", "handshake"}

(***************************************************************************)
(* C4                                                                      *)
(***************************************************************************)
\* C4 as claimed: after a socket's 'end', 'close' or 'error' event has been
\* handled, the socket is not in the registry.
C4_Original ==
  last.op \in {"end", "close", "error"} => last.sock \notin Members(sseClients)

\* C4 as amended: after a socket's 'end' or 'close' event has been handled,
\* the socket is not in the registry; the 'error' event leaves the registry
\* as it was.
C4_RemovedOnEndOrClose ==
  /\ last.op \in {"end", "close"} => last.sock \notin Members(sseClients)
  /\ last.op = "error" => (last.sock \in Members(sseClients)) = last.member

\* The 'close' event of a subscribed socket has been handled.
C4_Witness ==
  /\ last.op = "close"
  /\ last.member
  /\ last.sock \notin Members(sseClients)

(***************************************************************************)
(* C5                                                                      *)
(***************************************************************************)
\* The four texts a tick at time t is to write, spelled out.
ExpectedTickTexts(t) ==
  LET stamp == Str("1970-01-01T00:00:00.00") \o <<48 + t>> \o Str("Z")
  IN  << Str("event: ping\ndata: Ping event at ") \o stamp \o Str("\n\n"),
         Str("data: Server time: ") \o stamp \o Str("\n\n"),
         Str("id: ") \o <<48 + t>> \o Str("\n\n"),
         Str("retry: 3000\n\n") >>

RECURSIVE ExpectedTickFrom(_, _)
ExpectedTickFrom(lo, hi) ==
  IF lo > hi THEN <<>>
  ELSE <<ExpectedTickTexts(lo)>> \o ExpectedTickFrom(lo + 1, hi)

\* ExpectedTickTexts(t) for every t of Times: ExpectedTick[t + 1].
ExpectedTick == ExpectedTickFrom(0, MaxTime)

\* text ends with a blank line and holds no blank line before its end.
OneEvent(text) ==
  /\ Len(text) >= 2
  /\ \A i \in 1..(Len(text) - 1) : (text[i] = 10 /\ text[i + 1] = 10) <=> i = Len(text) - 1

\* C5: a tick writes to every socket of the registry exactly four messages,
\* in the order ping event, data only, id only, retry only, each one a
\* separate write that ends with its own blank line; the callback runs to
\* completion, so every call between a socket's first and fourth message is
\* a broadcast write of this tick.
C5_TickOrdering ==
  last.op = "tick" =>
    /\ \A c \in Members(sseClients) :
         /\ WrittenTo(c) = ExpectedTick[last.time + 1]
         /\ \A k \in 1..4 : OneEvent(WrittenTo(c)[k])
    /\ \A i \in 1..Len(last.calls) :
         /\ last.calls[i].call = "write"
         /\ last.calls[i].site = "broadcast"
         /\ last.calls[i].sock \in Members(sseClients)

\* A tick at a time after the first has written its four messages to a socket.
C5_Witness ==
  /\ last.op = "tick"
  /\ last.time > 0
  /\ \E c \in Members(sseClients) :
       /\ Len(WrittenTo(c)) = 4
       /\ \A i \in 1..Len(last.calls) : last.calls[i].sock = c => last.calls[i].ok

(***************************************************************************)
(* C6                                                                      *)
(***************************************************************************)
\* Some write of the last callback was made on a socket that cannot be
\* written to any more.
WriteFailed == \E i \in 1..Len(last.calls) : ~last.calls[i].ok

\* C6: a tick in which a write to one socket of the registry fails does not
\* throw; each of its four broadcasts still writes to every socket of the
\* registry, and the writes to the other sockets are made as if nothing had
\* failed.
C6_FailureIsolation ==
  (last.op = "tick" /\ WriteFailed) =>
    /\ running /\ ~last.threw
    /\ Len(last.calls) = 4 * Len(sseClients)
    /\ \A c \in Members(sseClients), k \in 1..4 :
         \E i \in 1..Len(last.calls) :
           /\ last.calls[i].sock = c
           /\ last.calls[i].data = TickTable[last.time + 1][k]
           /\ last.calls[i].ok = Writable(phase, writableEnded, c)

\* A tick whose writes to one socket of the registry failed has written all
\* four messages to another.
C6_Witness ==
  /\ last.op = "tick" /\ WriteFailed
  /\ \E c \in Members(sseClients) :
       /\ Len(WrittenTo(c)) = 4
       /\ \A i \in 1..Len(last.calls) : last.calls[i].sock = c => last.calls[i].ok
       /\ \E i \in 1..Len(last.calls) :
            /\ ~last.calls[i].ok
            /\ \E j \in (i + 1)..Len(last.calls) : last.calls[j].sock = c

(***************************************************************************)
(* What the buffers of AllInputs are, by construction.                     *)
(***************************************************************************)
\* The buffer of the last 'data' event is a request line of HttpProbes, a
\* buffer of ByteProbes.
IsHttpProbe == last.input > HttpBase /\ last.input <= ByteBase
IsByteProbe == last.input > ByteBase

\* The buffer is the request GET <path>, with whatever follows the path.
IsGet(path) ==
  IF IsHttpProbe
  THEN LET q == HttpProbeParts(last.input - HttpBase)
       IN  q.method = ProbeMethods[1] /\ q.path = path
  ELSE \/ path = ProbePaths[1] /\ last.data = ReqRoot
       \/ path = ProbePaths[2] /\ last.data = ReqWebsocket
       \/ path = ProbePaths[3] /\ last.data = ReqSse

\* The route the request is to take.
ExpectedRoute ==
  IF IsGet(ProbePaths[1]) THEN "root"
  ELSE IF IsGet(ProbePaths[2]) THEN "websocket"
  ELSE IF IsGet(ProbePaths[3]) THEN "sse"
  ELSE "other"

\* The text of the buffer holds Sec-WebSocket-Key.
Named ==
  IF IsByteProbe THEN ByteProbeParts(last.input - ByteBase).rest.named
  ELSE last.data \in {ReqUpgrade, ReqUpgradeNoKey}

\* The first line of the buffer that begins with Sec-WebSocket-Key has a
\* value after ": ".
Keyed ==
  IF IsByteProbe THEN ByteProbeParts(last.input - ByteBase).rest.keyed
  ELSE last.data = ReqUpgrade

\* The top bit of byte 0 is set and its low four bits are not all zero.
Signed ==
  IF IsByteProbe THEN ByteProbeParts(last.input - ByteBase).first.sig
  ELSE last.data \in {FrameText, FrameClose, FramePing, FrameTruncated}

\* The call sites of the last callback, in order.
Sites == [i \in 1..Len(last.calls) |-> last.calls[i].site]
\* The kinds of call of the last callback, in order.
Kinds == [i \in 1..Len(last.calls) |-> last.calls[i].call]

(***************************************************************************)
(* C7                                                                      *)
(***************************************************************************)
\* The header block of an SSE subscription, spelled out.
ExpectedSseHeaders ==
  Str("HTTP/1.1 200 OK\r\nContent-Type: text/event-stream\r\nCache-Control: no-cache\r\n")
    \o Str("Connection: keep-alive\r\nAccess-Control-Allow-Origin: *\r\n\r\n")

\* C7: the HTTP responder ends the socket, after one write, if and only if
\* the request is neither GET /websocket nor GET /serverside-events; for GET
\* /websocket it writes once and does not end the socket; for GET
\* /serverside-events it writes exactly the text/event-stream header block,
\* adds the socket to the registry and does not end it.
C7_ClosingAfterHttp ==
  (DataHandled /\ last.handler = "http") =>
    /\ CallsOn(last.sock) = last.calls
    /\ ~last.threw
    /\ (\E i \in 1..Len(Kinds) : Kinds[i] = "end")
         <=> ExpectedRoute \notin {"websocket", "sse"}
    /\ ExpectedRoute \in {"root", "other"} => Kinds = <<"write", "end">>
    /\ ExpectedRoute = "websocket" => Kinds = <<"write">>
    /\ ExpectedRoute = "sse" =>
         /\ Kinds = <<"write", "add">>
         /\ last.calls[1].data = ExpectedSseHeaders
         /\ last.sock \in Members(sseClients)
    /\ ExpectedRoute # "sse" => (last.sock \in Members(sseClients)) = last.member

\* An SSE subscription has been handled: the socket is in the registry and
\* has not been ended.
C7_Witness ==
  /\ DataHandled /\ last.handler = "http"
  /\ ExpectedRoute = "sse"
  /\ ~last.member
  /\ last.sock \in Members(sseClients)
  /\ ~writableEnded[last.sock]

(***************************************************************************)
(* C8                                                                      *)
(***************************************************************************)
ExpectedSwitching == Str("HTTP/1.1 101 Switching Protocols\r\n")

\* C8: the handshake handler writes exactly one response, which begins with
\* the status line 101 Switching Protocols, when the first line that begins
\* with Sec-WebSocket-Key has a value after ": ", and makes no call at all
\* otherwise; it never ends the socket and never changes the registry.
C8_HandshakeOutcome ==
  (DataHandled /\ last.handler = "handshake") =>
    /\ ~last.threw
    /\ CallsOn(last.sock) = last.calls
    /\ IF Keyed
       THEN /\ Kinds = <<"write">>
            /\ startsWith(last.calls[1].data, ExpectedSwitching)
       ELSE last.calls = <<>>
    /\ (last.sock \in Members(sseClients)) = last.member

\* A handshake without a key value has been handled on a subscribed socket:
\* nothing was written and the socket is still subscribed and not ended.
C8_Witness ==
  /\ DataHandled /\ last.handler = "handshake"
  /\ Named /\ ~Keyed
  /\ last.calls = <<>>
  /\ last.member /\ last.sock \in Members(sseClients)
  /\ ~writableEnded[last.sock]

(***************************************************************************)
(* C9                                                                      *)
(***************************************************************************)
\* C9: every buffer goes to exactly one handler: the handshake handler when
\* its text holds Sec-WebSocket-Key, whatever its first byte; otherwise the
\* frame handler when the top bit of byte 0 is set and its low four bits are
\* not all zero; otherwise the HTTP responder.  Only that handler acts.
C9_Classifier ==
  DataHandled =>
    /\ last.handler = (IF Named THEN "handshake" ELSE IF Signed THEN "frame" ELSE "http")
    /\ \A i \in 1..Len(Sites) :
         Sites[i] \in (IF last.handler = "handshake" THEN {"handshake"}
                       ELSE IF last.handler = "frame" THEN {"echo", "close-frame"}
                       ELSE {"http", "http-end", "sse-headers", "sse-add"})

\* A buffer that has the frame signature and holds Sec-WebSocket-Key with a
\* value has been answered as a handshake.
C9_Witness ==
  /\ DataHandled
  /\ Named /\ Signed /\ Keyed
  /\ last.handler = "handshake"
  /\ Sites = <<"handshake">>

(***************************************************************************)
(* C10                                                                     *)
(***************************************************************************)
\* A response as a client reads it: the status code of the status line, the
\* header lines and the body.
ParseResponse(bytes) ==
  LET text == Utf8Decode(bytes)
      cut == indexOf(text, CRLF \o CRLF)
      lines == split(SubSeq(text, 1, cut - 1), CRLF)
  IN  [code |-> At(split(lines[1], <<32>>), 2).val,
       headerLines |-> {lines[i] : i \in 2..Len(lines)},
       body |-> SubSeq(text, cut + 4, Len(text))]

\* The routing table, spelled out.
ExpectedResponse ==
  [root |-> [code |-> Str("200"), body |-> Str("Hello, world!"), more |-> {}],
   websocket |-> [code |-> Str("426"), body |-> Str("Upgrade Required"),
                  more |-> {Str("Upgrade: websocket"), Str("Connection: Upgrade")}],
   other |-> [code |-> Str("404"), body |-> Str("Not Found"), more |-> {}]]

\* The header lines of every 200, 426 and 404 response.
ExpectedCommon == {Str("Content-Type: text/plain"), Str("Access-Control-Allow-Origin: *")}

\* C10: GET / is answered 200 "Hello, world!"; GET /websocket 426 "Upgrade
\* Required" with Upgrade: websocket and Connection: Upgrade; GET
\* /serverside-events goes to the SSE subscription; every other method or
\* path, compared exactly, 404 "Not Found"; each of these responses carries
\* Content-Type: text/plain and Access-Control-Allow-Origin: *.
C10_RoutingTable ==
  (DataHandled /\ last.handler = "http") =>
    IF ExpectedRoute = "sse"
    THEN Sites = <<"sse-headers", "sse-add">>
    ELSE /\ Len(last.calls) >= 1
         /\ Sites[1] = "http"
         /\ LET r == ParseResponse(last.calls[1].data)
                e == ExpectedResponse[ExpectedRoute]
            IN  /\ r.code = e.code
                /\ r.body = e.body
                /\ ExpectedCommon \subseteq r.headerLines
                /\ e.more \subseteq r.headerLines

\* GET /websocket/ (a path that only begins like a route) was answered 404.
C10_Witness ==
  /\ DataHandled /\ last.handler = "http"
  /\ IsHttpProbe
  /\ HttpProbeParts(last.input - HttpBase).method = ProbeMethods[1]
  /\ HttpProbeParts(last.input - HttpBase).path = ProbePaths[5]
  /\ ParseResponse(last.calls[1].data).code = ExpectedResponse.other.code

(***************************************************************************)
(* The functions on their own: formatSseMessage, sendWebSocketFrame and    *)
(* the decoding of handleWebSocketFrames, applied to one argument each.    *)
(* No socket is connected; last holds the argument and the result.  The     *)
(* functions are pure: a behaviour applies one of them once.               *)
(***************************************************************************)
\* What a function returned: op names the function, input the argument's
\* index, data the bytes or text it was given or has produced, out the rest.
Applied(op, k, data, out) == [op |-> op, input |-> k, data |-> data, out |-> out]

\* The values a field of an SseMessage takes: absent, the empty string, two
\* other strings.
FieldProbes == <<Absent, Field(<<>>), Field(Str("x")), Field(Str("ping"))>>
NumSseProbes == Len(FieldProbes) * Len(FieldProbes) * Len(FieldProbes) * Len(FieldProbes)

\* The k-th SseMessage, one for every combination of field values.
SseProbe(k) ==
  LET n == Len(FieldProbes)
  IN  [event |-> FieldProbes[((k - 1) % n) + 1],
       data |-> FieldProbes[(((k - 1) \div n) % n) + 1],
       id |-> FieldProbes[(((k - 1) \div (n * n)) % n) + 1],
       retry |-> FieldProbes[(((k - 1) \div (n * n * n)) % n) + 1]]

\* formatSseMessage(SseProbe(k))
Format(k) ==
  /\ last.op = "init"
  /\ last' = Applied("format", k, formatSseMessage(SseProbe(k)), <<>>)
  /\ UNCHANGED <<running, phase, writableEnded, sseClients, upgraded>>

(***************************************************************************)
(* C11                                                                     *)
(***************************************************************************)
\* The field names with their separators.
FieldNames == [event |-> Str("event: "), data |-> Str("data: "), id |-> Str("id: "),
               retry |-> Str("retry: ")]

\* One line for a field that is set, to whatever string; nothing for an
\* absent field.
ExpectedLine(name, x) == IF x.def THEN FieldNames[name] \o x.val \o <<10>> ELSE <<>>

\* C11 as claimed: formatSseMessage returns one line '<fieldname>: <value>\n'
\* for every field that is set, the empty string included, in the order
\* event, data, id, retry, nothing for an absent field, and one '\n' at the
\* end; no fields give "\n" and {event: "ping", data: "x"} gives
\* "event: ping\ndata: x\n\n".
C11_Original ==
  last.op = "format" =>
    LET message == SseProbe(last.input)
    IN  last.data = ExpectedLine("event", message.event) \o ExpectedLine("data", message.data)
                      \o ExpectedLine("id", message.id) \o ExpectedLine("retry", message.retry)
                      \o <<10>>

(***************************************************************************)
(* Texts for the encoder.                                                  *)
(***************************************************************************)
\* The longest text, in characters, that is given to the encoder.
MaxText == 130

\* The k-th text: n letters for every n of 0..MaxText, once as they are (one
\* byte each) and once behind U+00E9, whose UTF-8 encoding takes two bytes.
TextProbe(k) ==
  LET n == (k - 1) \div 2
      letters == [i \in 1..n |-> 97 + (i % 26)]
  IN  IF (k - 1) % 2 = 0 THEN letters ELSE <<233>> \o letters
NumTextProbes == 2 * (MaxText + 1)

\* sendWebSocketFrame(socket, TextProbe(k)), and what handleWebSocketFrames
\* does with the frame it wrote.
Encode(k) ==
  /\ last.op = "init"
  /\ LET frame == sendWebSocketFrame(TextProbe(k))[1].data
         r == handleWebSocketFrames(frame)
     IN  last' = Applied("encode", k, frame,
                         [decoded |-> DecodeFrame(frame), calls |-> r.calls,
                          threw |-> r.threw])
  /\ UNCHANGED <<running, phase, writableEnded, sseClients, upgraded>>

(***************************************************************************)
(* C12                                                                     *)
(***************************************************************************)
\* The first length code that stands for an extended length field.
ExtendedLength == 126
\* The longest payload, in bytes, whose length fits the 7-bit length field.
ShortPayload == ExtendedLength - 1

\* C12: the frame the encoder writes for a text of at most 125 UTF-8 bytes is
\* decoded as a final, unmasked frame of opcode 1 whose payload is the
\* text's UTF-8 encoding and decodes to the text, and the decoder echoes a
\* frame equal, byte for byte, to the one it was given.
C12_RoundTrip ==
  (last.op = "encode" /\ Len(Utf8Encode(TextProbe(last.input))) <= ShortPayload) =>
    /\ ~last.out.threw
    /\ last.out.decoded.opcode = 1
    /\ last.out.decoded.fin = 1
    /\ last.out.decoded.mask = 0
    /\ last.out.decoded.payloadLength = Len(Utf8Encode(TextProbe(last.input)))
    /\ last.out.decoded.payloadData = Utf8Encode(TextProbe(last.input))
    /\ Utf8Decode(last.out.decoded.payloadData) = TextProbe(last.input)
    /\ Len(last.out.calls) = 1
    /\ last.out.calls[1].call = "write"
    /\ last.out.calls[1].data = last.data

\* A text of 125 bytes that holds a two-byte character has made the round trip.
C12_Witness ==
  /\ last.op = "encode"
  /\ Len(last.data) = ShortPayload + 2
  /\ Len(TextProbe(last.input)) = ShortPayload - 1
  /\ Len(last.out.calls) = 1
  /\ last.out.calls[1].data = last.data

(***************************************************************************)
(* C15                                                                     *)
(***************************************************************************)
\* C15 as claimed: for a text of any byte length the frame the encoder writes
\* has byte 0 equal to 0x81, byte 1 equal to the payload's length with the
\* mask bit 0x80 clear, and the UTF-8 payload behind it.
C15_Original ==
  last.op = "encode" =>
    LET payload == Utf8Encode(TextProbe(last.input))
    IN  /\ Len(last.data) = 2 + Len(payload)
        /\ last.data[1] = 129
        /\ last.data[2] = Len(payload)
        /\ last.data[2] < 128
        /\ SubSeq(last.data, 3, Len(last.data)) = payload

(***************************************************************************)
(* Masked frames, as a client sends them.                                  *)
(***************************************************************************)
\* The longest payload that is masked: longer than the key, so that the key
\* is used a second time.
MaxMasked == 6

\* Bit j of the byte a.
Bit(a, j) == (a \div (2 ^ j)) % 2

RECURSIVE XorFrom(_, _, _)
\* The exclusive or of two bytes, bit by bit from bit j up.
XorFrom(a, b, j) ==
  IF j > 7 THEN 0
  ELSE ((Bit(a, j) + Bit(b, j)) % 2) * (2 ^ j) + XorFrom(a, b, j + 1)

\* A payload as the peer masks it before sending (RFC 6455, 5.3): byte i is
\* combined with byte i mod 4 of the key.
ClientMask(payload, key) ==
  [i \in 1..Len(payload) |-> XorFrom(payload[i], key[((i - 1) % 4) + 1], 0)]

MaskKeys == << <<0, 0, 0, 0>>, <<255, 255, 255, 255>>, <<1, 2, 4, 8>>, <<55, 250, 33, 61>> >>

\* The payloads that are masked: of every length up to MaxMasked, bytes of
\* three kinds.
MaskPayload(k) ==
  LET n == (k - 1) \div 3
      kind == (k - 1) % 3
  IN  [i \in 1..n |-> IF kind = 0 THEN (37 * i + 11 * n) % 256
                      ELSE IF kind = 1 THEN 255
                      ELSE 96 + i]
NumMaskPayloads == 3 * (MaxMasked + 1)

\* The text frame a client sends for a payload and a key.
MaskedFrame(payload, key) == <<129, 128 + Len(payload)>> \o key \o ClientMask(payload, key)

\* Lines 150-173 of handleWebSocketFrames on the masked frame of payload i
\* and key j.
Unmask(i, j) ==
  /\ last.op = "init"
  /\ LET frame == MaskedFrame(MaskPayload(i), MaskKeys[j])
     IN  last' = Applied("unmask", <<i, j>>, frame, DecodeFrame(frame))
  /\ UNCHANGED <<running, phase, writableEnded, sseClients, upgraded>>

(***************************************************************************)
(* C13                                                                     *)
(***************************************************************************)
\* C13: the decoder combines byte i of a masked payload with byte i mod 4 of
\* the masking key by exclusive or, so the payload it decodes from a frame
\* that was masked with a key is the payload that was masked, byte for byte.
C13_Masking ==
  last.op = "unmask" =>
    LET payload == MaskPayload(last.input[1])
        key == MaskKeys[last.input[2]]
        sent == SubSeq(last.data, 7, Len(last.data))
    IN  /\ ~last.out.threw
        /\ last.out.mask = 1
        /\ last.out.payloadLength = Len(payload)
        /\ last.out.payloadData = payload
        /\ Len(sent) = Len(payload)
        /\ \A i \in 1..Len(sent) :
             last.out.payloadData[i] = XorFrom(sent[i], key[((i - 1) % 4) + 1], 0)

\* A payload longer than the key, masked with a key that changes every byte,
\* has been unmasked.
C13_Witness ==
  /\ last.op = "unmask"
  /\ Len(last.out.payloadData) > 4
  /\ \A i \in 1..Len(last.out.payloadData) : last.out.payloadData[i] # last.data[6 + i]
  /\ last.out.payloadData = MaskPayload(last.input[1])

(***************************************************************************)
(* Frames for the decoder.                                                 *)
(***************************************************************************)
\* Text frames "hi" and "abc" with each kind of length field, whole and cut
\* short, unmasked and masked, and the frames of Inputs and EdgeInputs.
FrameProbes ==
  << FrameText, FrameClose, FramePing, FrameContinuation, FrameTruncated,
     <<129, 0>>,
     <<129, 5, 104, 105>>,
     <<129, 126, 0, 3, 97, 98, 99>>,
     <<129, 126, 0, 3, 97>>,
     <<129, 126, 0>>,
     <<129, 127, 0, 0, 0, 0, 0, 0, 0, 2, 104, 105>>,
     <<129, 127, 0, 0, 0, 0, 0, 0, 0, 2, 104>>,
     <<129, 127, 255, 255, 255, 255, 255, 255, 255, 255, 104>>,
     <<129, 127, 0, 0>>,
     MaskedFrame(<<104, 105>>, MaskKeys[4]),
     <<129, 133>> \o MaskKeys[4] \o ClientMask(<<104, 105>>, MaskKeys[4]),
     <<129, 130, 55, 250>>,
     <<129, 254, 0, 3>> \o MaskKeys[3] \o ClientMask(<<97, 98, 99>>, MaskKeys[3]),
     <<129, 254, 0, 3>> \o MaskKeys[3] >>

\* Lines 150-173 of handleWebSocketFrames on FrameProbes[k].
Decode(k) ==
  /\ last.op = "init"
  /\ last' = Applied("decode", k, FrameProbes[k], DecodeFrame(FrameProbes[k]))
  /\ UNCHANGED <<running, phase, writableEnded, sseClients, upgraded>>

NextPure ==
  \/ \E k \in 1..NumSseProbes : Format(k)
  \/ \E k \in 1..NumTextProbes : Encode(k)
  \/ \E i \in 1..NumMaskPayloads, j \in 1..Len(MaskKeys) : Unmask(i, j)
  \/ \E k \in 1..Len(FrameProbes) : Decode(k)

SpecPure == Init /\ [][NextPure]_vars

(***************************************************************************)
(* C14                                                                     *)
(***************************************************************************)
\* C14 as claimed: for every buffer of at least 2 bytes the decoder reads the
\* header and the payload it has after unmasking is as long as the header
\* declares, also when the buffer is shorter than that.
C14_Original ==
  (last.op = "decode" /\ Len(last.data) >= 2) =>
    /\ ~last.out.threw
    /\ Len(last.out.payloadData) = last.out.payloadLength

(***************************************************************************)
(* C16                                                                     *)
(***************************************************************************)
\* C16 as claimed: for every buffer the frame handler is given, it writes
\* exactly one frame to the same socket and does not end it when the opcode
\* is 0x1; ends the socket and writes nothing when the opcode is 0x8; and
\* for every other opcode makes no call and changes nothing.
C16_Original ==
  (DataHandled /\ last.handler = "frame") =>
    LET opcode == ByteAt(last.data, 0) % 16
    IN  /\ ~last.threw
        /\ running
        /\ CallsOn(last.sock) = last.calls
        /\ opcode = 1 => (Kinds = <<"write">> /\ Sites = <<"echo">>)
        /\ opcode = 8 => Kinds = <<"end">>
        /\ opcode \notin {1, 8} => last.calls = <<>>

(***************************************************************************)
(* C17                                                                     *)
(***************************************************************************)
\* C17: a step changes the registry only if it is an SSE subscription, which
\* appends the subscribing socket, or the 'end' or 'close' event of a member,
\* which removes that socket and no other; the handshake, the frames, the
\* other HTTP routes, 'error', 'timeout' and the ticks leave it as it is.
C17_RegistryFrame ==
  [][ sseClients' # sseClients =>
        \/ /\ last'.op = "data" /\ last'.handler = "http" /\ last'.data = ReqSse
           /\ last'.sock \notin Members(sseClients)
           /\ sseClients' = Append(sseClients, last'.sock)
        \/ /\ last'.op \in {"end", "close"}
           /\ last'.sock \in Members(sseClients)
           /\ sseClients' = SelectSeq(sseClients, LAMBDA x : x # last'.sock) ]_vars

\* A member's 'close' event has removed it and left another member in the
\* registry.
C17_Witness ==
  /\ last.op = "close"
  /\ last.member
  /\ last.sock \notin Members(sseClients)
  /\ sseClients # <<>>

(***************************************************************************)
(* C18                                                                     *)
(***************************************************************************)
\* C18 as claimed: no socket is at once in the registry and one that has
\* been written a 101 response.
C18_Original ==
  \A c \in Conns : ~(c \in Members(sseClients) /\ upgraded[c])

(***************************************************************************)
(* C19                                                                     *)
(***************************************************************************)
\* C19 as claimed: no callback writes to a socket the server has ended.  (On
\* a socket whose own 'end' or 'error' event has not fired, a write can only
\* fail because socket.end() was called before it.)
C19_Original ==
  \A i \in 1..Len(last.calls) :
    (last.calls[i].call = "write" /\ phase[last.calls[i].sock] = "open")
      => last.calls[i].ok

(***************************************************************************)
(* C20                                                                     *)
(***************************************************************************)
\* C20 as claimed: the frame handler writes an echo frame to a socket, or
\* ends it for a close frame, only if a 101 response was written to that
\* socket before.
C20_Original ==
  (DataHandled /\ last.handler = "frame" /\ last.calls # <<>>) => last.wasUpgraded

=============================================================================
